---- MODULE Spec2Model ----
(***************************************************************************)
(* Query-result cache of the RAG front end (src/cache_dynamodb.py): a      *)
(* DynamoDB table keyed by the SHA-256 fingerprint of the normalized user  *)
(* query, with TTL stamps, access statistics, invalidation, an expiry      *)
(* sweep and aggregate statistics.                                         *)
(*                                                                         *)
(* The table is the external collaborator.  It is modelled as DynamoDB     *)
(* behaves for the calls the module makes on it: get_item by key,          *)
(* put_item (full replace), update_item (upsert), delete_item (succeeds    *)
(* whether or not the item exists), scan in pages with the filter applied  *)
(* to each page after it is read.  Every call may raise; a key attribute   *)
(* that is the empty string is rejected by the service and so raises.      *)
(* Reads are taken to be consistent, as section 6 of the specification     *)
(* assumes of the backend.                                                 *)
(***************************************************************************)
EXTENDS Integers, Sequences, FiniteSets, TLC

VARIABLES
    tables,             \* table name -> (query_hash -> item), the DynamoDB side
    DDB_TABLE,          \* os.environ["DDB_TABLE"]
    CACHED_TABLE,       \* module global _CACHED_TABLE (None or a table handle)
    dynamodb_resource,  \* module global _dynamodb_resource (None or set)
    now,                \* int(time.time())
    last,               \* the last completed call: its arguments and result
    prev,               \* the call completed before it
    pre,                \* contents of the cache table when the last call began
    ops,                \* number of calls made so far
    procs,              \* calls in progress side by side: caller -> its position
                        \* and local variables (empty when calls run one at a time)
    query_cache,        \* st.session_state.query_cache of src/rag_project/main.py
    s3,                 \* keys of the objects in the S3 bucket (raw/..., processed/...)
    index,              \* file names whose chunks are in the Chroma collection
    watcher             \* continuous_sync of src/watcher.py: position and locals

\* The state outside the DynamoDB cache module.
otherVars == <<query_cache, s3, index, watcher>>

vars == <<tables, DDB_TABLE, CACHED_TABLE, dynamodb_resource, now, last, prev,
          pre, ops, procs, otherVars>>

(***************************************************************************)
(* Bounds of the exploration.                                              *)
(***************************************************************************)
MaxOps == 2         \* calls per behaviour
MaxTime == 3        \* last value of the clock
MaxPage == 2        \* largest scan page (items examined per scan call)
MaxFail == 3        \* a backend failure is injected at call 1..MaxFail of a handler
MaxGetters == 3     \* get calls running side by side
MaxSweepers == 2    \* invalidate / cleanup calls running side by side

(***************************************************************************)
(* Program constants.                                                      *)
(***************************************************************************)
DEFAULT_TTL_SECONDS == 86400

None == <<>>             \* Python None where an item (a dict) is expected
NoneStr == "<None>"      \* Python None where a string is expected
NoTable == NoneStr       \* Python None where a table handle is expected
EmptyTable == <<>>

\* Table names the sidebar can put in DDB_TABLE; the first is the default.
TableNames == {"agentic_qa_cache", "gilead_qa_cache"}

\* The raw queries callers pass in.
Queries == {"alpha beta", "gamma alpha", "delta", " Delta ", "", "  "}
\* The answers the generator produces, each with the retrieved_docs the
\* caller passes along with it (None: the argument is left out).
Generated == {<<"a1", "[doc]">>, <<"a2", NoneStr>>}
TTLs == {0, 1, DEFAULT_TTL_SECONDS}
\* Patterns typed into "Clear by pattern".
Patterns == {"alpha", "Delta", "4f4a", "zz"}

\* Python truthiness of an optional string: None and "" are false.
Truthy(s) == s # NoneStr /\ s # ""

(***************************************************************************)
(* create_query_hash                                                       *)
(***************************************************************************)
UpperChars == "ABCDEFGHIJKLMNOPQRSTUVWXYZ"
LowerChars == "abcdefghijklmnopqrstuvwxyz"

IsSpace(c) == c \in {" ", "\t", "\n", "\r"}

LowerChar(c) ==
    IF \E i \in 1..Len(UpperChars) : SubSeq(UpperChars, i, i) = c
    THEN LET i == CHOOSE j \in 1..Len(UpperChars) : SubSeq(UpperChars, j, j) = c
         IN  SubSeq(LowerChars, i, i)
    ELSE c

\* Mutant of lower: the text is left in the case it came in.
lower_as_is(s) == s

RECURSIVE lower(_)
lower(s) ==
    IF Len(s) = 0 THEN ""
    ELSE LowerChar(SubSeq(s, 1, 1)) \o lower(SubSeq(s, 2, Len(s)))

RECURSIVE lstrip(_)
lstrip(s) ==
    IF Len(s) > 0 /\ IsSpace(SubSeq(s, 1, 1)) THEN lstrip(SubSeq(s, 2, Len(s))) ELSE s

RECURSIVE rstrip(_)
rstrip(s) ==
    IF Len(s) > 0 /\ IsSpace(SubSeq(s, Len(s), Len(s)))
    THEN rstrip(SubSeq(s, 1, Len(s) - 1)) ELSE s

strip(s) == rstrip(lstrip(s))

\* hashlib.sha256(text).hexdigest(): the real digests of the normalized texts
\* of Queries and HashInputs; any other text has a digest of its own.
sha256_hexdigest(text) ==
    CASE text = "alpha beta"  -> "1a989ea86150171c687b0727f218eedbb94c4665a7da9b0add1bf5de607f2bf1"
      [] text = "gamma alpha" -> "a18caf4d9bca26b5d8594c058648dad73a863ac2bc8ee1db43f60d7db03ff869"
      [] text = "delta"       -> "4f4a9410ffcdf895c4adb880659e9b5c0dd1f23a30790684340b3eaacb045398"
      [] text = ""            -> "e3b0c44298fc1c149afbf4c8996fb92427ae41e4649b934ca495991b7852b855"
      [] text = "alpha  beta" -> "5fb778aa5fc0dd29d7b12d4f55c540bb056c3997d5d584bf71f1d885b861686e"
      [] text = "alphabeta"   -> "a4c4aeb92c20500f364b12b3771ef3a11193e2cf04d0f28956a829749993b39f"
      [] text = "a"           -> "ca978112ca1bbdcafac231b39a23dc4da786eff8147c4e72b9807785afee48bb"
      [] OTHER                -> "sha256(" \o text \o ")"

create_query_hash(user_query) ==
    IF user_query = "" THEN ""
    ELSE sha256_hexdigest(lower(strip(user_query)))

(***************************************************************************)
(* Keys.  KeyOrder is the order in which a scan walks the table.           *)
(***************************************************************************)
KeyOrder ==
    << "1a989ea86150171c687b0727f218eedbb94c4665a7da9b0add1bf5de607f2bf1",
       "4f4a9410ffcdf895c4adb880659e9b5c0dd1f23a30790684340b3eaacb045398",
       "a18caf4d9bca26b5d8594c058648dad73a863ac2bc8ee1db43f60d7db03ff869",
       "e3b0c44298fc1c149afbf4c8996fb92427ae41e4649b934ca495991b7852b855",
       "nohash_0" >>

Keys == {KeyOrder[i] : i \in 1..Len(KeyOrder)}

\* Keys a caller may pass: the stored ones and the empty sentinel.
ProbeKeys == Keys \cup {""}

(***************************************************************************)
(* The DynamoDB table, as the calls of the module see it.  A table value   *)
(* t is a function from the query_hash of each stored item to the item; an *)
(* item is a record of its attributes.                                     *)
(***************************************************************************)
KeyPos(k) == CHOOSE i \in 1..Len(KeyOrder) : KeyOrder[i] = k

\* table.get_item(Key=...): the response, with "Item" only when it exists.
get_item(t, k) == IF k \in DOMAIN t THEN [Item |-> t[k]] ELSE <<>>

\* resp.get("Item")
resp_get_Item(resp) == IF "Item" \in DOMAIN resp THEN resp.Item ELSE None

\* Mutant of put_item: the write keeps the access statistics of the item it
\* replaces.
put_item_keep_stats(t, item) ==
    [k \in DOMAIN t \cup {item.query_hash} |->
        IF k # item.query_hash THEN t[k]
        ELSE IF k \in DOMAIN t /\ "access_count" \in DOMAIN t[k]
        THEN [item EXCEPT !.access_count = t[k].access_count]
        ELSE item]

\* table.put_item(Item=item): replaces the whole item stored under its key.
put_item(t, item) ==
    [k \in DOMAIN t \cup {item.query_hash} |->
        IF k = item.query_hash THEN item ELSE t[k]]

\* Mutant of delete_item: the delete addresses no stored item.
delete_item_noop(t, k) == t

\* table.delete_item(Key=...): no error when the key is absent.
delete_item(t, k) == [x \in DOMAIN t \ {k} |-> t[x]]

\* Mutant of update_item: last_accessed is set, access_count is not touched.
update_item_touch_only(t, k, time) ==
    LET old == IF k \in DOMAIN t THEN t[k] ELSE [query_hash |-> k]
        new == [f \in DOMAIN old \cup {"last_accessed"} |->
                  IF f = "last_accessed" THEN time ELSE old[f]]
    IN  [x \in DOMAIN t \cup {k} |-> IF x = k THEN new ELSE t[x]]

\* Mutant of update_item: access_count is set to one, not added to.
update_item_overwrite_count(t, k, time) ==
    LET old == IF k \in DOMAIN t THEN t[k] ELSE [query_hash |-> k]
        new == [f \in DOMAIN old \cup {"access_count", "last_accessed"} |->
                  CASE f = "access_count" -> 1
                    [] f = "last_accessed" -> time
                    [] OTHER -> old[f]]
    IN  [x \in DOMAIN t \cup {k} |-> IF x = k THEN new ELSE t[x]]

\* table.update_item with
\*   SET access_count = if_not_exists(access_count, :zero) + :inc,
\*       last_accessed = :now
\* UpdateItem creates the item when the key is absent.
update_item(t, k, time) ==
    LET old == IF k \in DOMAIN t THEN t[k] ELSE [query_hash |-> k]
        new == [f \in DOMAIN old \cup {"access_count", "last_accessed"} |->
                  CASE f = "access_count" ->
                         (IF "access_count" \in DOMAIN old
                          THEN old.access_count ELSE 0) + 1
                    [] f = "last_accessed" -> time
                    [] OTHER -> old[f]]
    IN  [x \in DOMAIN t \cup {k} |-> IF x = k THEN new ELSE t[x]]

\* Attr(name).contains(p) on a string attribute: substring, case-sensitive;
\* false when the attribute is missing.
contains(s, p) ==
    \E i \in 1..(Len(s) - Len(p) + 1) : SubSeq(s, i, i + Len(p) - 1) = p

AttrContains(item, name, p) == name \in DOMAIN item /\ contains(item[name], p)

\* Mutant of AttrLt: the comparison is <=.
AttrLe(item, name, v) == name \in DOMAIN item /\ item[name] <= v

\* Attr(name).lt(v): false when the attribute is missing.
AttrLt(item, name, v) == name \in DOMAIN item /\ item[name] < v

\* Mutant of FilterMatches: the pattern filter looks at user_query only.
FilterMatches_query_only(item, scan_kwargs) ==
    IF "FilterExpression" \notin DOMAIN scan_kwargs THEN TRUE
    ELSE LET f == scan_kwargs.FilterExpression
         IN  CASE f.op = "hash_or_query_contains" ->
                     AttrContains(item, "user_query", f.value)
               [] f.op = "ttl_lt" -> AttrLt(item, "ttl", f.value)

\* The FilterExpressions the module builds.
FilterMatches(item, scan_kwargs) ==
    IF "FilterExpression" \notin DOMAIN scan_kwargs THEN TRUE
    ELSE LET f == scan_kwargs.FilterExpression
         IN  CASE f.op = "hash_or_query_contains" ->
                     \/ AttrContains(item, "query_hash", f.value)
                     \/ AttrContains(item, "user_query", f.value)
               [] f.op = "ttl_lt" -> AttrLt(item, "ttl", f.value)

\* table.scan(**scan_kwargs): one page.  The scan examines at most `limit`
\* items after ExclusiveStartKey in key order, applies the filter to them,
\* and returns LastEvaluatedKey when it stopped at the page limit.
scan(t, scan_kwargs, limit) ==
    LET startPos == IF "ExclusiveStartKey" \in DOMAIN scan_kwargs
                    THEN KeyPos(scan_kwargs.ExclusiveStartKey) ELSE 0
        rest     == SelectSeq(KeyOrder,
                        LAMBDA k : k \in DOMAIN t /\ KeyPos(k) > startPos)
        n        == IF Len(rest) < limit THEN Len(rest) ELSE limit
        page     == [i \in 1..n |-> t[rest[i]]]
        Items    == SelectSeq(page, LAMBDA item : FilterMatches(item, scan_kwargs))
    IN  IF n = limit
        THEN [Items |-> Items, LastEvaluatedKey |-> rest[n]]
        ELSE [Items |-> Items]

\* Mutant of delete_items: the items are counted but not deleted.
delete_items_none(t, Items, j) == t

\* for item in response.get("Items", []): table.delete_item(...) for the
\* first j items of the page.
delete_items(t, Items, j) ==
    [x \in DOMAIN t \ {Items[i].query_hash : i \in 1..j} |-> t[x]]

\* Mutant of scan_and_delete: the first page only, LastEvaluatedKey ignored.
scan_and_delete_first_page(t, scan_kwargs, limit, deleted_count, calls, failAt) ==
    IF failAt = calls + 1
    THEN [table |-> t, deleted_count |-> deleted_count, raised |-> TRUE]
    ELSE LET response == scan(t, scan_kwargs, limit)
             n        == Len(response.Items)
             failIdx  == failAt - (calls + 1)
             failed   == failIdx \in 1..n
             j        == IF failed THEN failIdx - 1 ELSE n
             t2       == delete_items(t, response.Items, j)
         IN  [table |-> t2, deleted_count |-> deleted_count + j,
              raised |-> failed]

\* The scan-and-delete loop of invalidate_cache and cleanup_expired_cache:
\* scan a page, delete each returned item and count it, and continue from
\* LastEvaluatedKey while the response carries one.  `calls` backend calls
\* were made before; call number failAt raises and ends the loop.
RECURSIVE scan_and_delete(_, _, _, _, _, _)
scan_and_delete(t, scan_kwargs, limit, deleted_count, calls, failAt) ==
    IF failAt = calls + 1
    THEN [table |-> t, deleted_count |-> deleted_count, raised |-> TRUE]
    ELSE LET response == scan(t, scan_kwargs, limit)
             n        == Len(response.Items)
             failIdx  == failAt - (calls + 1)
             failed   == failIdx \in 1..n
             j        == IF failed THEN failIdx - 1 ELSE n
             t2       == delete_items(t, response.Items, j)
         IN  IF failed
             THEN [table |-> t2, deleted_count |-> deleted_count + j,
                   raised |-> TRUE]
             ELSE IF "LastEvaluatedKey" \in DOMAIN response
             THEN scan_and_delete(t2,
                      ("ExclusiveStartKey" :> response.LastEvaluatedKey)
                          @@ scan_kwargs,
                      limit, deleted_count + n, calls + 1 + n, failAt)
             ELSE [table |-> t2, deleted_count |-> deleted_count + n,
                   raised |-> FALSE]

(***************************************************************************)
(* _table() and get_dynamodb_resource().  initOk says whether              *)
(* boto3.resource / db.Table succeed when they are called.                 *)
(***************************************************************************)
get_dynamodb_resource(initOk) ==
    IF dynamodb_resource THEN [db |-> TRUE, resource |-> TRUE]
    ELSE IF initOk THEN [db |-> TRUE, resource |-> TRUE]
    ELSE [db |-> FALSE, resource |-> FALSE]

table_handle(initOk) ==
    IF CACHED_TABLE # NoTable
    THEN [table |-> CACHED_TABLE, cached |-> CACHED_TABLE,
          resource |-> dynamodb_resource]
    ELSE LET tbl_name == DDB_TABLE
             r == get_dynamodb_resource(initOk)
         IN  IF ~r.db
             THEN [table |-> NoTable, cached |-> NoTable, resource |-> r.resource]
             ELSE [table |-> tbl_name, cached |-> tbl_name, resource |-> r.resource]

\* The contents of the table the cached handle points at.
Store == IF CACHED_TABLE = NoTable THEN EmptyTable ELSE tables[CACHED_TABLE]

(***************************************************************************)
(* put_cached_answer builds this item at time `time`.                      *)
(***************************************************************************)
NewItem(user_query, answer, retrieved_docs, ttl_seconds, time) ==
    LET query_hash == create_query_hash(user_query)
        expire_at  == time + ttl_seconds
        item == [query_hash    |-> query_hash,
                 user_query    |-> user_query,
                 answer        |-> answer,
                 ttl           |-> expire_at,
                 created_at    |-> time,
                 access_count  |-> 0,
                 last_accessed |-> time]
    IN  IF retrieved_docs # NoneStr
        THEN ("retrieved_docs" :> retrieved_docs) @@ item
        ELSE item

(***************************************************************************)
(* Initial state: a fresh process (nothing resolved yet) in front of a     *)
(* durable table.  The table holds what earlier runs of the program left   *)
(* in it: any subset of three records written by put_cached_answer at      *)
(* time 1, one of them hit once since.  At the first clock value, 2, the   *)
(* first is past its expiry, the third is exactly at it, the second is     *)
(* far from it.                                                            *)
(***************************************************************************)
EarlierItems ==
    { NewItem("alpha beta", "a1", "[doc]", 0, 1),
      update_item(
          put_item(EmptyTable,
                   NewItem("gamma alpha", "a1", NoneStr, DEFAULT_TTL_SECONDS, 1)),
          create_query_hash("gamma alpha"), 1)[create_query_hash("gamma alpha")],
      NewItem("delta", "a2", NoneStr, 1, 1) }

TableOf(items) ==
    [k \in {i.query_hash : i \in items} |->
        CHOOSE i \in items : i.query_hash = k]

\* Nothing has run outside the cache module: a new session, an empty
\* bucket and collection, the watcher not started.
OthersIdle ==
    /\ query_cache = <<>>
    /\ s3 = {}
    /\ index = {}
    /\ watcher = [pc |-> "off"]

Init ==
    /\ \E items \in SUBSET EarlierItems :
          tables = [n \in TableNames |->
                      IF n = "agentic_qa_cache" THEN TableOf(items) ELSE EmptyTable]
    /\ DDB_TABLE = "agentic_qa_cache"
    /\ CACHED_TABLE = NoTable
    /\ dynamodb_resource = FALSE
    /\ now = 2
    /\ last = [op |-> "init"]
    /\ prev = [op |-> "init"]
    /\ pre = EmptyTable
    /\ ops = 0
    /\ procs = <<>>
    /\ OthersIdle

\* Mutant of except_Exception: the exception goes on to the caller.
except_Exception_reraise(result) == [raised |-> TRUE]

\* except Exception as e: log(...); return <result>.  Every handler wraps
\* its backend calls in this clause; the call ends by returning.
except_Exception(result) == [raised |-> FALSE] @@ result

\* Every handler starts with table = _table(); h is what it resolved.  The
\* call is counted and the table contents before it are kept.
Begin(h) ==
    /\ ops < MaxOps
    /\ ops' = ops + 1
    /\ CACHED_TABLE' = h.cached
    /\ dynamodb_resource' = h.resource
    /\ prev' = last
    /\ pre' = IF h.table = NoTable THEN EmptyTable ELSE tables[h.table]
    /\ UNCHANGED <<DDB_TABLE, now, procs, otherVars>>

(***************************************************************************)
(* get_cached_answer(query_hash)                                           *)
(* Backend calls: 1 = get_item, 2 = update_item.                           *)
(***************************************************************************)
\* Mutant of get_cached_answer: the access update is not in a try of its own,
\* its failure is caught by the outer clause.
get_cached_answer_update_unguarded(query_hash, initOk, failAt) ==
    LET h    == table_handle(initOk)
        args == [op |-> "get", query_hash |-> query_hash, at |-> now]
    IN
    /\ Begin(h)
    /\ IF h.table = NoTable
       THEN /\ tables' = tables
            /\ last' = [ret |-> None, fault |-> "no_table", raised |-> FALSE] @@ args
       ELSE LET t == tables[h.table] IN
            IF failAt = 1 \/ query_hash = ""
            THEN /\ tables' = tables
                 /\ last' = except_Exception([ret |-> None])
                               @@ [fault |-> "get_item"] @@ args
            ELSE LET item == resp_get_Item(get_item(t, query_hash)) IN
                 IF item # None
                 THEN IF failAt = 2
                      THEN /\ tables' = tables
                           /\ last' = except_Exception([ret |-> None])
                                         @@ [fault |-> "update_item"] @@ args
                      ELSE /\ tables' = [tables EXCEPT ![h.table] =
                                            update_item(t, query_hash, now)]
                           /\ last' = [ret |-> item, fault |-> "none",
                                        raised |-> FALSE] @@ args
                 ELSE /\ tables' = tables
                      /\ last' = [ret |-> None, fault |-> "none",
                                   raised |-> FALSE] @@ args

\* Mutant of get_cached_answer: the access update runs on a miss as well.
get_cached_answer_always_updates(query_hash, initOk, failAt) ==
    LET h    == table_handle(initOk)
        args == [op |-> "get", query_hash |-> query_hash, at |-> now]
    IN
    /\ Begin(h)
    /\ IF h.table = NoTable
       THEN /\ tables' = tables
            /\ last' = [ret |-> None, fault |-> "no_table", raised |-> FALSE] @@ args
       ELSE LET t == tables[h.table] IN
            IF failAt = 1 \/ query_hash = ""
            THEN /\ tables' = tables
                 /\ last' = except_Exception([ret |-> None])
                               @@ [fault |-> "get_item"] @@ args
            ELSE LET item == resp_get_Item(get_item(t, query_hash)) IN
                 IF item # None
                 THEN IF failAt = 2
                      THEN /\ tables' = tables
                           /\ last' = [ret |-> item, fault |-> "update_item",
                                        raised |-> FALSE] @@ args
                      ELSE /\ tables' = [tables EXCEPT ![h.table] =
                                            update_item(t, query_hash, now)]
                           /\ last' = [ret |-> item, fault |-> "none",
                                        raised |-> FALSE] @@ args
                 ELSE /\ tables' = [tables EXCEPT ![h.table] =
                                       update_item(t, query_hash, now)]
                      /\ last' = [ret |-> None, fault |-> "none",
                                   raised |-> FALSE] @@ args

get_cached_answer(query_hash, initOk, failAt) ==
    LET h    == table_handle(initOk)
        args == [op |-> "get", query_hash |-> query_hash, at |-> now]
    IN
    /\ Begin(h)
    /\ IF h.table = NoTable
       THEN /\ tables' = tables
            /\ last' = [ret |-> None, fault |-> "no_table", raised |-> FALSE] @@ args
       ELSE LET t == tables[h.table] IN
            IF failAt = 1 \/ query_hash = ""
            THEN /\ tables' = tables
                 /\ last' = except_Exception([ret |-> None])
                               @@ [fault |-> "get_item"] @@ args
            ELSE LET item == resp_get_Item(get_item(t, query_hash)) IN
                 IF item # None
                 THEN IF failAt = 2
                      THEN /\ tables' = tables
                           /\ last' = [ret |-> item, fault |-> "update_item",
                                        raised |-> FALSE] @@ args
                      ELSE /\ tables' = [tables EXCEPT ![h.table] =
                                            update_item(t, query_hash, now)]
                           /\ last' = [ret |-> item, fault |-> "none",
                                        raised |-> FALSE] @@ args
                 ELSE /\ tables' = tables
                      /\ last' = [ret |-> None, fault |-> "none",
                                   raised |-> FALSE] @@ args

(***************************************************************************)
(* put_cached_answer(user_query, answer, retrieved_docs, ttl_seconds)      *)
(* Backend calls: 1 = put_item.                                            *)
(***************************************************************************)
\* Mutant of put_cached_answer: the record under the fingerprint is deleted
\* before the write is attempted.
put_cached_answer_delete_first(user_query, answer, retrieved_docs, ttl_seconds, initOk, failAt) ==
    LET h    == table_handle(initOk)
        args == [op |-> "put", user_query |-> user_query, answer |-> answer,
                 retrieved_docs |-> retrieved_docs, ttl_seconds |-> ttl_seconds,
                 at |-> now]
    IN
    /\ Begin(h)
    /\ IF h.table = NoTable
       THEN /\ tables' = tables
            /\ last' = [fault |-> "no_table", raised |-> FALSE] @@ args
       ELSE LET t    == tables[h.table]
                item == NewItem(user_query, answer, retrieved_docs, ttl_seconds, now)
            IN  IF failAt = 1 \/ item.query_hash = ""
                THEN /\ tables' = [tables EXCEPT ![h.table] =
                                      IF item.query_hash = "" THEN t
                                      ELSE delete_item(t, item.query_hash)]
                     /\ last' = except_Exception(<<>>)
                                   @@ [fault |-> "put_item"] @@ args
                ELSE /\ tables' = [tables EXCEPT ![h.table] = put_item(t, item)]
                     /\ last' = [fault |-> "none", raised |-> FALSE] @@ args

put_cached_answer(user_query, answer, retrieved_docs, ttl_seconds, initOk, failAt) ==
    LET h    == table_handle(initOk)
        args == [op |-> "put", user_query |-> user_query, answer |-> answer,
                 retrieved_docs |-> retrieved_docs, ttl_seconds |-> ttl_seconds,
                 at |-> now]
    IN
    /\ Begin(h)
    /\ IF h.table = NoTable
       THEN /\ tables' = tables
            /\ last' = [fault |-> "no_table", raised |-> FALSE] @@ args
       ELSE LET t    == tables[h.table]
                item == NewItem(user_query, answer, retrieved_docs, ttl_seconds, now)
            IN  IF failAt = 1 \/ item.query_hash = ""
                THEN /\ tables' = tables
                     /\ last' = except_Exception(<<>>)
                                   @@ [fault |-> "put_item"] @@ args
                ELSE /\ tables' = [tables EXCEPT ![h.table] = put_item(t, item)]
                     /\ last' = [fault |-> "none", raised |-> FALSE] @@ args

(***************************************************************************)
(* invalidate_cache(query_hash, pattern)                                   *)
(* Backend calls: 1 = delete_item when query_hash is given; otherwise the  *)
(* scans and deletes of the loop, in order.                                *)
(***************************************************************************)
invalidate_cache(query_hash, pattern, limit, initOk, failAt) ==
    LET h    == table_handle(initOk)
        args == [op |-> "invalidate", query_hash |-> query_hash,
                 pattern |-> pattern, limit |-> limit, at |-> now]
    IN
    /\ Begin(h)
    /\ IF h.table = NoTable
       THEN /\ tables' = tables
            /\ last' = [ret |-> 0, fault |-> "no_table", raised |-> FALSE] @@ args
       ELSE LET t == tables[h.table] IN
            IF Truthy(query_hash)
            THEN IF failAt = 1
                 THEN /\ tables' = tables
                      /\ last' = except_Exception([ret |-> 0])
                                    @@ [fault |-> "delete_item"] @@ args
                 ELSE /\ tables' = [tables EXCEPT ![h.table] =
                                       delete_item(t, query_hash)]
                      /\ last' = [ret |-> 1, fault |-> "none",
                                    raised |-> FALSE] @@ args
            ELSE LET scan_kwargs ==
                         IF Truthy(pattern)
                         THEN [FilterExpression |->
                                 [op |-> "hash_or_query_contains", value |-> pattern]]
                         ELSE <<>>
                     r == scan_and_delete(t, scan_kwargs, limit, 0, 0, failAt)
                 IN  /\ tables' = [tables EXCEPT ![h.table] = r.table]
                     /\ last' = IF r.raised
                                THEN except_Exception([ret |-> 0])
                                         @@ [fault |-> "scan_or_delete"] @@ args
                                ELSE [ret |-> r.deleted_count, fault |-> "none",
                                      raised |-> FALSE] @@ args

(***************************************************************************)
(* cleanup_expired_cache()                                                 *)
(***************************************************************************)
cleanup_expired_cache(limit, initOk, failAt) ==
    LET h    == table_handle(initOk)
        args == [op |-> "cleanup", limit |-> limit, at |-> now]
    IN
    /\ Begin(h)
    /\ IF h.table = NoTable
       THEN /\ tables' = tables
            /\ last' = [ret |-> 0, fault |-> "no_table", raised |-> FALSE] @@ args
       ELSE LET t == tables[h.table]
                scan_kwargs == [FilterExpression |-> [op |-> "ttl_lt", value |-> now]]
                r == scan_and_delete(t, scan_kwargs, limit, 0, 0, failAt)
            IN  /\ tables' = [tables EXCEPT ![h.table] = r.table]
                /\ last' = IF r.raised
                           THEN except_Exception([ret |-> 0])
                                    @@ [fault |-> "scan_or_delete"] @@ args
                           ELSE [ret |-> r.deleted_count, fault |-> "none",
                                 raised |-> FALSE] @@ args

(***************************************************************************)
(* get_cache_stats()                                                       *)
(* Backend calls: the scans, in order.                                     *)
(***************************************************************************)
\* x / y of Python (true division), kept exact as a fraction; PyZero is the
\* literal 0 the code returns when there is nothing to divide.
PyDiv(x, y) == [num |-> x, den |-> y]
PyZero == [num |-> 0, den |-> 1]

RECURSIVE sum(_)
sum(xs) == IF xs = <<>> THEN 0 ELSE Head(xs) + sum(Tail(xs))

max(xs) == CHOOSE x \in {xs[i] : i \in 1..Len(xs)} :
               \A j \in 1..Len(xs) : xs[j] <= x

min(xs) == CHOOSE x \in {xs[i] : i \in 1..Len(xs)} :
               \A j \in 1..Len(xs) : x <= xs[j]

\* i.get(name, 0)
item_get(item, name) == IF name \in DOMAIN item THEN item[name] ELSE 0

\* Mutant of scan_all: the first page only, LastEvaluatedKey ignored.
scan_all_first_page(t, scan_kwargs, limit, items, calls, failAt) ==
    IF failAt = calls + 1
    THEN [items |-> items, raised |-> TRUE]
    ELSE [items |-> items \o scan(t, scan_kwargs, limit).Items, raised |-> FALSE]

\* response = table.scan(); items = response["Items"]; while the response
\* has LastEvaluatedKey, scan on from it and extend items.
RECURSIVE scan_all(_, _, _, _, _, _)
scan_all(t, scan_kwargs, limit, items, calls, failAt) ==
    IF failAt = calls + 1
    THEN [items |-> items, raised |-> TRUE]
    ELSE LET response == scan(t, scan_kwargs, limit)
             items2   == items \o response.Items
         IN  IF "LastEvaluatedKey" \in DOMAIN response
             THEN scan_all(t, [ExclusiveStartKey |-> response.LastEvaluatedKey],
                           limit, items2, calls + 1, failAt)
             ELSE [items |-> items2, raised |-> FALSE]

compute_stats(items, time) ==
    LET access_counts == [i \in 1..Len(items) |-> item_get(items[i], "access_count")]
        created_times == [i \in 1..Len(items) |-> item_get(items[i], "created_at")]
    IN  [total_entries |-> Len(items),
         avg_access_count |->
             IF access_counts # <<>>
             THEN PyDiv(sum(access_counts), Len(access_counts)) ELSE PyZero,
         max_access_count |->
             IF access_counts # <<>> THEN max(access_counts) ELSE 0,
         oldest_entry_age_hours |->
             IF created_times # <<>>
             THEN PyDiv(time - min(created_times), 3600) ELSE PyZero,
         newest_entry_age_hours |->
             IF created_times # <<>>
             THEN PyDiv(time - max(created_times), 3600) ELSE PyZero]

\* Mutant of stats_error: a failure is reported as the statistics of an
\* empty table.
stats_error_zeroed(e) == compute_stats(<<>>, 0)

\* return {"error": ...}
stats_error(e) == [error |-> e]

get_cache_stats(limit, initOk, failAt) ==
    LET h    == table_handle(initOk)
        args == [op |-> "stats", limit |-> limit, at |-> now]
    IN
    /\ Begin(h)
    /\ tables' = tables
    /\ IF h.table = NoTable
       THEN last' = [ret |-> stats_error("DynamoDB table unavailable"),
                     fault |-> "no_table", raised |-> FALSE] @@ args
       ELSE LET r == scan_all(tables[h.table], <<>>, limit, <<>>, 0, failAt) IN
            IF r.raised
            THEN last' = except_Exception([ret |-> stats_error("scan failed")])
                            @@ [fault |-> "scan"] @@ args
            ELSE last' = [ret |-> compute_stats(r.items, now), fault |-> "none",
                          raised |-> FALSE] @@ args

(***************************************************************************)
(* update_access_stats(query_hash)                                         *)
(* Backend calls: 1 = update_item.                                         *)
(***************************************************************************)
update_access_stats(query_hash, initOk, failAt) ==
    LET h    == table_handle(initOk)
        args == [op |-> "update_access_stats", query_hash |-> query_hash, at |-> now]
    IN
    /\ Begin(h)
    /\ IF h.table = NoTable
       THEN /\ tables' = tables
            /\ last' = [fault |-> "no_table", raised |-> FALSE] @@ args
       ELSE IF failAt = 1 \/ query_hash = ""
       THEN /\ tables' = tables
            /\ last' = except_Exception(<<>>)
                          @@ [fault |-> "update_item"] @@ args
       ELSE /\ tables' = [tables EXCEPT ![h.table] =
                             update_item(tables[h.table], query_hash, now)]
            /\ last' = [fault |-> "none", raised |-> FALSE] @@ args

(***************************************************************************)
(* time.time() advances between calls.                                     *)
(***************************************************************************)
Tick ==
    /\ now < MaxTime
    /\ now' = now + 1
    /\ UNCHANGED <<tables, DDB_TABLE, CACHED_TABLE, dynamodb_resource, last,
                   prev, pre, ops, procs, otherVars>>

(***************************************************************************)
(* Spec: the handlers called one after another by a single caller, with a  *)
(* reachable backend whose calls all succeed.                              *)
(***************************************************************************)
\* The three ways the callers invoke invalidate_cache.
\* (The page size matters only when the call scans.)
InvalidateArgs ==
    {<<k, NoneStr, 1>> : k \in Keys}
        \cup {<<k, NoneStr, l>> : k \in {"", NoneStr}, l \in 1..MaxPage}
        \cup {<<NoneStr, p, l>> : p \in Patterns, l \in 1..MaxPage}

Get == \E k \in ProbeKeys : get_cached_answer(k, TRUE, 0)

Put == \E q \in Queries, g \in Generated, ttl \in TTLs :
          put_cached_answer(q, g[1], g[2], ttl, TRUE, 0)

Invalidate == \E a \in InvalidateArgs :
                 invalidate_cache(a[1], a[2], a[3], TRUE, 0)

Cleanup == \E limit \in 1..MaxPage : cleanup_expired_cache(limit, TRUE, 0)

Stats == \E limit \in 1..MaxPage : get_cache_stats(limit, TRUE, 0)

UpdateAccess == \E k \in ProbeKeys : update_access_stats(k, TRUE, 0)

Next == Get \/ Put \/ Invalidate \/ Cleanup \/ Stats \/ UpdateAccess \/ Tick

Spec == Init /\ [][Next]_vars

(***************************************************************************)
(* Vocabulary of the properties.                                           *)
(***************************************************************************)
\* The last call reached the backend and none of its calls raised.
LastOk(op) == last.op = op /\ last.fault = "none"
PrevOk(op) == prev.op = op /\ prev.fault = "none"

\* The records the two table contents hold under keys other than those in K
\* are the same records.
SameExcept(t1, t2, K) ==
    /\ DOMAIN t1 \ K = DOMAIN t2 \ K
    /\ \A k \in DOMAIN t1 \ K : t1[k] = t2[k]

\* p occurs in s as a contiguous run of characters, case for case.
IsSubstring(p, s) ==
    \E i \in 0..(Len(s) - Len(p)) : SubSeq(s, i + 1, i + Len(p)) = p

\* invalidate_cache was called with a fingerprint / a pattern / nothing.
ByKey     == last.op = "invalidate" /\ last.query_hash # NoneStr
ByPattern == last.op = "invalidate" /\ last.query_hash = NoneStr
                /\ last.pattern # NoneStr
FullClear == last.op = "invalidate" /\ last.query_hash = NoneStr
                /\ last.pattern = NoneStr

(***************************************************************************)
(* C1.  get never returns a record whose expires_at is earlier than the    *)
(* current time: a present-but-expired record is a miss, whether or not    *)
(* the sweep has run.  Stated of the record a put has just stored: put,    *)
(* time passing or not, then get of its fingerprint.                       *)
(***************************************************************************)
C1_ExpiredIsMiss ==
    (LastOk("get") /\ PrevOk("put")
        /\ last.query_hash = create_query_hash(prev.user_query)
        /\ last.ret # None)
        => last.ret.ttl >= last.at

(***************************************************************************)
(* C2.  Round trip.  As claimed: put(q, a, ttl=T) with q non-empty and     *)
(* T > 0, followed immediately by get(fingerprint(q)), returns a record    *)
(* with answer a and access_count 1.                                       *)
(***************************************************************************)
RoundTrip ==
    /\ LastOk("get") /\ PrevOk("put")
    /\ prev.user_query # "" /\ prev.ttl_seconds > 0
    /\ last.query_hash = create_query_hash(prev.user_query)

C2_RoundTripCountsTheRead ==
    RoundTrip => /\ last.ret # None
                 /\ last.ret.answer = prev.answer
                 /\ last.ret.access_count = 1

(***************************************************************************)
(* C2 as amended.  The record get returns is the one read before the       *)
(* increment: answer a and access_count 0; the increment of that read is   *)
(* in the stored record, whose access_count is 1 once get has returned.    *)
(***************************************************************************)
C2_RoundTripReturnsRecordAsRead ==
    RoundTrip => /\ last.ret # None
                 /\ last.ret.answer = prev.answer
                 /\ last.ret.access_count = 0
                 /\ last.query_hash \in DOMAIN Store
                 /\ Store[last.query_hash].answer = prev.answer
                 /\ Store[last.query_hash].access_count = 1

C2_Witness ==
    /\ RoundTrip
    /\ last.ret # None
    /\ last.query_hash \in DOMAIN Store
    /\ Store[last.query_hash].access_count = 1

(***************************************************************************)
(* C3.  Overwrite.  After a put of a query whose fingerprint already has a *)
(* record (with any number of hits), the store holds under that            *)
(* fingerprint the record of the new put and nothing of the old one:       *)
(* the new answer, access_count 0, created_at the time of this put,        *)
(* expires_at that time plus ttl, retrieved_docs only if this put passed   *)
(* it; the other records are untouched, and a get that follows returns the *)
(* new answer.                                                             *)
(***************************************************************************)
C3_Overwrite ==
    /\ LastOk("put") =>
          LET k == create_query_hash(last.user_query) IN
          /\ k \in DOMAIN Store
          /\ Store[k].query_hash = k
          /\ Store[k].user_query = last.user_query
          /\ Store[k].answer = last.answer
          /\ Store[k].access_count = 0
          /\ Store[k].created_at = last.at
          /\ Store[k].last_accessed = last.at
          /\ Store[k].ttl = last.at + last.ttl_seconds
          /\ ("retrieved_docs" \in DOMAIN Store[k]) = (last.retrieved_docs # NoneStr)
          /\ DOMAIN Store[k] \subseteq
                {"query_hash", "user_query", "answer", "ttl", "created_at",
                 "access_count", "last_accessed", "retrieved_docs"}
          /\ SameExcept(Store, pre, {k})
    /\ (LastOk("get") /\ PrevOk("put")
          /\ last.query_hash = create_query_hash(prev.user_query)) =>
          /\ last.ret # None
          /\ last.ret.answer = prev.answer
          /\ last.ret.access_count = 0

C3_Witness ==
    /\ LastOk("put")
    /\ LET k == create_query_hash(last.user_query) IN
       /\ k \in DOMAIN pre
       /\ {"answer", "created_at"} \subseteq DOMAIN pre[k]
       /\ pre[k].access_count >= 1
       /\ pre[k].answer # last.answer
       /\ pre[k].created_at < last.at
       /\ Store[k].answer = last.answer

(***************************************************************************)
(* C4.  Invalidate single.  invalidate(fingerprint) of a record that put   *)
(* stored returns 1 and removes that record, every record under another    *)
(* fingerprint is left as it was, and a get of the fingerprint that        *)
(* follows is absent.                                                      *)
(***************************************************************************)
C4_InvalidateSingle ==
    /\ (ByKey /\ last.fault = "none" /\ last.query_hash \in DOMAIN pre) =>
          /\ last.ret = 1
          /\ last.query_hash \notin DOMAIN Store
          /\ SameExcept(Store, pre, {last.query_hash})
    /\ (LastOk("get") /\ PrevOk("invalidate")
          /\ prev.query_hash # NoneStr /\ prev.query_hash # ""
          /\ last.query_hash = prev.query_hash) =>
          last.ret = None

C4_Witness ==
    /\ ByKey /\ last.fault = "none"
    /\ PrevOk("put")
    /\ last.query_hash = create_query_hash(prev.user_query)
    /\ last.query_hash \in DOMAIN pre
    /\ last.ret = 1
    /\ last.query_hash \notin DOMAIN Store
    /\ DOMAIN Store # {}

(***************************************************************************)
(* C5.  invalidate(fingerprint) returns the number of records it deleted:  *)
(* 1 when a record with that key was present, 0 when there was none.       *)
(***************************************************************************)
C5_InvalidateReturnsDeleted ==
    (ByKey /\ last.fault = "none" /\ last.query_hash \in Keys) =>
        last.ret = IF last.query_hash \in DOMAIN pre THEN 1 ELSE 0

(***************************************************************************)
(* C6.  Invalidate by pattern.  invalidate(pattern=p), p non-empty,        *)
(* deletes exactly the records whose fingerprint or raw query contains p   *)
(* (case-sensitive), returns how many they were, and leaves the others     *)
(* present and unchanged.                                                  *)
(***************************************************************************)
PatternMatches(t, p) ==
    {k \in DOMAIN t :
        \/ IsSubstring(p, k)
        \/ "user_query" \in DOMAIN t[k] /\ IsSubstring(p, t[k].user_query)}

C6_InvalidatePattern ==
    (ByPattern /\ last.pattern # "" /\ last.fault = "none") =>
        LET M == PatternMatches(pre, last.pattern) IN
        /\ DOMAIN Store = DOMAIN pre \ M
        /\ SameExcept(Store, pre, M)
        /\ last.ret = Cardinality(M)

\* The example of the specification: "alpha beta", "gamma alpha", "delta".
C6_Witness ==
    /\ ByPattern /\ last.fault = "none"
    /\ last.pattern = "alpha"
    /\ last.limit = 1
    /\ \A k \in DOMAIN pre : "user_query" \in DOMAIN pre[k]
    /\ {pre[k].user_query : k \in DOMAIN pre} = {"alpha beta", "gamma alpha", "delta"}
    /\ last.ret = 2
    /\ {Store[k].user_query : k \in DOMAIN Store} = {"delta"}

(***************************************************************************)
(* C7.  Full clear with paging.  invalidate() with neither argument leaves *)
(* the store empty and returns the number of records that were present,    *)
(* whatever the store size and the scan page size.                         *)
(***************************************************************************)
C7_FullClear ==
    (FullClear /\ last.fault = "none") =>
        /\ Store = EmptyTable
        /\ last.ret = Cardinality(DOMAIN pre)

C7_Witness ==
    /\ FullClear /\ last.fault = "none"
    /\ last.limit = 1
    /\ Cardinality(DOMAIN pre) >= 3
    /\ last.ret = Cardinality(DOMAIN pre)
    /\ Store = EmptyTable

(***************************************************************************)
(* C8.  Expiry sweep.  cleanup_expired() deletes exactly the records with  *)
(* expires_at < now (now read once, as the sweep starts), across all scan  *)
(* pages, returns how many they were, and leaves every record with         *)
(* expires_at >= now present and unchanged.                                *)
(***************************************************************************)
Expired(t, time) == {k \in DOMAIN t : "ttl" \in DOMAIN t[k] /\ t[k].ttl < time}

C8_Sweep ==
    LastOk("cleanup") =>
        LET E == Expired(pre, last.at) IN
        /\ DOMAIN Store = DOMAIN pre \ E
        /\ SameExcept(Store, pre, E)
        /\ last.ret = Cardinality(E)

\* Two expired records on different pages, one record exactly at its expiry.
C8_Witness ==
    /\ LastOk("cleanup")
    /\ last.limit = 1
    /\ last.ret >= 2
    /\ \E k \in DOMAIN Store : "ttl" \in DOMAIN Store[k] /\ Store[k].ttl = last.at
    /\ \E k \in DOMAIN Store : "ttl" \in DOMAIN Store[k] /\ Store[k].ttl > last.at

(***************************************************************************)
(* C9.  Cleanup idempotence.  When cleanup_expired() runs twice in a row   *)
(* and no record has come to expire in between, the second run returns 0   *)
(* and changes nothing (the first having returned the number of records    *)
(* it removed).                                                            *)
(***************************************************************************)
C9_CleanupIdempotent ==
    (LastOk("cleanup") /\ PrevOk("cleanup")
        /\ Expired(pre, last.at) \subseteq Expired(pre, prev.at)) =>
        /\ last.ret = 0
        /\ Store = pre

C9_Witness ==
    /\ LastOk("cleanup") /\ PrevOk("cleanup")
    /\ prev.ret >= 1
    /\ last.at > prev.at
    /\ pre # EmptyTable
    /\ last.ret = 0

(***************************************************************************)
(* SpecFault: the same handlers in front of a backend that may fail.  The  *)
(* resource or table handle may fail to initialise, and any one backend    *)
(* call of a handler may raise.                                            *)
(***************************************************************************)
\* _table() has something to initialise only while nothing is cached.
InitOutcomes == IF CACHED_TABLE = NoTable THEN BOOLEAN ELSE {TRUE}

FaultQueries == {"alpha beta", "delta"}
FaultKeys == {create_query_hash("alpha beta"), "nohash_0"}

GetF == \E k \in FaultKeys, initOk \in InitOutcomes, failAt \in 0..2 :
           get_cached_answer(k, initOk, failAt)

PutF == \E q \in FaultQueries, initOk \in InitOutcomes, failAt \in 0..1 :
           put_cached_answer(q, "a2", NoneStr, 0, initOk, failAt)

InvalidateF ==
    \/ \E k \in FaultKeys, initOk \in InitOutcomes, failAt \in 0..1 :
          invalidate_cache(k, NoneStr, 1, initOk, failAt)
    \/ \E p \in {NoneStr, "alpha"}, limit \in 1..MaxPage,
          initOk \in InitOutcomes, failAt \in 0..MaxFail :
          invalidate_cache(NoneStr, p, limit, initOk, failAt)

CleanupF == \E limit \in 1..MaxPage, initOk \in InitOutcomes, failAt \in 0..MaxFail :
               cleanup_expired_cache(limit, initOk, failAt)

StatsF == \E limit \in 1..MaxPage, initOk \in InitOutcomes, failAt \in 0..MaxFail :
             get_cache_stats(limit, initOk, failAt)

UpdateAccessF == \E k \in FaultKeys, initOk \in InitOutcomes, failAt \in 0..1 :
                    update_access_stats(k, initOk, failAt)

NextFault ==
    GetF \/ PutF \/ InvalidateF \/ CleanupF \/ StatsF \/ UpdateAccessF \/ Tick

SpecFault == Init /\ [][NextFault]_vars

(***************************************************************************)
(* C10.  stats() tells an empty store from an unavailable one: on a        *)
(* reachable store with no records it returns total_entries 0, average,    *)
(* maximum and both ages 0, and no error indicator; when the table handle  *)
(* is unavailable or a scan fails it returns an error indicator and none   *)
(* of the statistics fields.                                               *)
(***************************************************************************)
StatsFields ==
    {"total_entries", "avg_access_count", "max_access_count",
     "oldest_entry_age_hours", "newest_entry_age_hours"}

C10_StatsEmptyOrUnavailable ==
    last.op = "stats" =>
        /\ (last.fault = "none" /\ pre = EmptyTable) =>
              /\ DOMAIN last.ret = StatsFields
              /\ last.ret.total_entries = 0
              /\ last.ret.avg_access_count.num = 0
              /\ last.ret.max_access_count = 0
              /\ last.ret.oldest_entry_age_hours.num = 0
              /\ last.ret.newest_entry_age_hours.num = 0
        /\ last.fault # "none" =>
              /\ "error" \in DOMAIN last.ret
              /\ DOMAIN last.ret \cap StatsFields = {}
        /\ (last.fault = "no_table") = (CACHED_TABLE = NoTable)

\* stats on the empty store, and then stats again with the scan failing.
C10_Witness ==
    /\ last.op = "stats" /\ last.fault = "scan"
    /\ "error" \in DOMAIN last.ret
    /\ prev.op = "stats" /\ prev.fault = "none"
    /\ pre = EmptyTable
    /\ prev.ret.total_entries = 0

(***************************************************************************)
(* C11.  stats() aggregates over every physically stored record, across    *)
(* all scan pages and with no expiry filtering: total_entries is the       *)
(* number of stored records, expired ones included; max_access_count is    *)
(* the largest access_count among them; oldest_entry_age >=                *)
(* newest_entry_age >= 0, the ages being now minus the smallest and the    *)
(* largest created_at, in hours.                                           *)
(***************************************************************************)
\* x <= y for two fractions with positive denominators.
FracLe(x, y) == x.num * y.den <= y.num * x.den

AllHave(t, name) == \A k \in DOMAIN t : name \in DOMAIN t[k]

C11_StatsPhysical ==
    (LastOk("stats")) =>
        LET st == last.ret IN
        /\ st.total_entries = Cardinality(DOMAIN pre)
        /\ FracLe(PyZero, st.newest_entry_age_hours)
        /\ FracLe(st.newest_entry_age_hours, st.oldest_entry_age_hours)
        /\ (pre # EmptyTable /\ AllHave(pre, "access_count")) =>
              /\ \A k \in DOMAIN pre : pre[k].access_count <= st.max_access_count
              /\ \E k \in DOMAIN pre : pre[k].access_count = st.max_access_count
        /\ (pre # EmptyTable /\ AllHave(pre, "created_at")) =>
              /\ st.oldest_entry_age_hours.den = 3600
              /\ st.newest_entry_age_hours.den = 3600
              /\ \A k \in DOMAIN pre :
                    /\ last.at - pre[k].created_at <= st.oldest_entry_age_hours.num
                    /\ last.at - pre[k].created_at >= st.newest_entry_age_hours.num
              /\ \E k \in DOMAIN pre :
                    last.at - pre[k].created_at = st.oldest_entry_age_hours.num
              /\ \E k \in DOMAIN pre :
                    last.at - pre[k].created_at = st.newest_entry_age_hours.num

\* Three records on three pages, one of them expired and not swept, one hit,
\* one newer than the others.
C11_Witness ==
    /\ LastOk("stats")
    /\ last.limit = 1
    /\ Cardinality(DOMAIN pre) = 3
    /\ AllHave(pre, "created_at") /\ AllHave(pre, "ttl")
    /\ Expired(pre, last.at) # {}
    /\ last.ret.total_entries = 3
    /\ last.ret.max_access_count >= 1
    /\ last.ret.oldest_entry_age_hours.num > last.ret.newest_entry_age_hours.num

(***************************************************************************)
(* C12.  When the backend is unavailable or a storage call fails, no cache *)
(* operation raises to its caller: get returns absent when it could not    *)
(* read, put drops the write, invalidate and cleanup_expired return a      *)
(* count; stats is the only operation that hands an error value back.      *)
(***************************************************************************)
Failed == last.op # "init" /\ last.fault # "none"

C12_DegradesSilently ==
    last.op # "init" =>
        /\ ~last.raised
        /\ (last.op = "get" /\ last.fault \in {"no_table", "get_item"}) =>
              /\ last.ret = None
              /\ Store = pre
        /\ (last.op = "get" /\ last.ret # None) =>
              /\ last.query_hash \in DOMAIN pre
              /\ last.ret = pre[last.query_hash]
        /\ (last.op = "put" /\ Failed) => Store = pre
        /\ last.op \in {"invalidate", "cleanup"} => last.ret \in Nat
        /\ (last.op = "stats" /\ Failed) => "error" \in DOMAIN last.ret
        /\ last.op \in {"put", "update_access_stats"} => "ret" \notin DOMAIN last

\* A read that could not reach the table, then a sweep whose scan fails.
C12_Witness ==
    /\ last.op = "cleanup" /\ last.fault = "scan_or_delete"
    /\ ~last.raised /\ last.ret = 0
    /\ prev.op = "get" /\ prev.fault = "no_table"
    /\ ~prev.raised /\ prev.ret = None

(***************************************************************************)
(* C13.  A failed cache write never fails the caller and never corrupts    *)
(* the store: when put cannot get a table handle or its write raises, put  *)
(* returns normally and every table holds exactly what it held before the  *)
(* call; a record already stored under the fingerprint is intact.          *)
(***************************************************************************)
C13_FailedPutKeepsStore ==
    [][(last'.op = "put" /\ ops' = ops + 1 /\ last'.fault # "none") =>
          /\ ~last'.raised
          /\ tables' = tables]_vars

\* The write over a stored record fails.
C13_Witness ==
    /\ last.op = "put" /\ last.fault = "put_item"
    /\ ~last.raised
    /\ create_query_hash(last.user_query) \in DOMAIN pre
    /\ "answer" \in DOMAIN pre[create_query_hash(last.user_query)]
    /\ pre[create_query_hash(last.user_query)].answer # last.answer
    /\ Store = pre

(***************************************************************************)
(* C14.  Best-effort access update.  When get has read a present record    *)
(* and the update of access_count / last_accessed that follows fails, get  *)
(* still returns the record it read and does not raise, and the stored     *)
(* record is as it was before the call.                                    *)
(***************************************************************************)
C14_UpdateFailureKeepsRead ==
    (last.op = "get" /\ last.fault = "update_item") =>
        /\ ~last.raised
        /\ last.query_hash \in DOMAIN pre
        /\ last.ret = pre[last.query_hash]
        /\ Store = pre

C14_Witness ==
    /\ last.op = "get" /\ last.fault = "update_item"
    /\ ~last.raised
    /\ last.ret # None
    /\ "answer" \in DOMAIN last.ret
    /\ last.query_hash \in DOMAIN Store
    /\ Store[last.query_hash] = last.ret

(***************************************************************************)
(* C15.  A miss has no side effects: get of a fingerprint with no record   *)
(* returns absent and leaves the whole store as it was; no record is       *)
(* created, no other record's access_count or last_accessed changes.       *)
(***************************************************************************)
C15_MissHasNoEffect ==
    (last.op = "get" /\ last.query_hash \notin DOMAIN pre) =>
        /\ last.ret = None
        /\ Store = pre
        /\ \A n \in TableNames \ {CACHED_TABLE} : tables[n] = EmptyTable

\* A miss next to stored records, one of them with hits.
C15_Witness ==
    /\ LastOk("get")
    /\ last.query_hash \notin DOMAIN pre
    /\ last.ret = None
    /\ \E k \in DOMAIN pre : "access_count" \in DOMAIN pre[k]
                               /\ pre[k].access_count >= 1
    /\ Store = pre

(***************************************************************************)
(* SpecHits: get_cached_answer called by several callers at once on one    *)
(* key.  Each call is two backend steps, the read (lines 94-102) and, when *)
(* an item was read, the access update (lines 105-111) followed by         *)
(* `return item`; the steps of different callers interleave freely.  Each  *)
(* backend call is atomic on its item.  No put, invalidate or sweep runs.  *)
(***************************************************************************)
TableBefore(items) ==
    /\ tables = [n \in TableNames |->
                    IF n = "agentic_qa_cache" THEN TableOf(items) ELSE EmptyTable]
    /\ pre = TableOf(items)
    /\ DDB_TABLE = "agentic_qa_cache"
    /\ CACHED_TABLE = NoTable
    /\ dynamodb_resource = FALSE
    /\ now = 2
    /\ last = [op |-> "init"]
    /\ prev = [op |-> "init"]
    /\ ops = 0
    /\ OthersIdle

InitHits ==
    \E items \in SUBSET EarlierItems, k \in Keys, n \in 1..MaxGetters :
        /\ TableBefore(items)
        /\ procs = [p \in 1..n |->
                      [kind |-> "get", pc |-> "get_item", query_hash |-> k,
                       item |-> None, ret |-> None]]

\* table = _table(); resp = table.get_item(...); item = resp.get("Item")
get_cached_answer_read(p) ==
    LET me   == procs[p]
        h    == table_handle(TRUE)
        item == resp_get_Item(get_item(tables[h.table], me.query_hash))
    IN
    /\ me.kind = "get" /\ me.pc = "get_item"
    /\ CACHED_TABLE' = h.cached
    /\ dynamodb_resource' = h.resource
    /\ procs' = [procs EXCEPT ![p] =
                    IF item # None
                    THEN [me EXCEPT !.pc = "update_item", !.item = item]
                    ELSE [me EXCEPT !.pc = "done"]]
    /\ UNCHANGED <<tables, DDB_TABLE, now, last, prev, pre, ops, otherVars>>

\* table.update_item(...) under `if item:`, then return item
get_cached_answer_update(p) ==
    LET me == procs[p] IN
    /\ me.kind = "get" /\ me.pc = "update_item"
    /\ tables' = [tables EXCEPT ![CACHED_TABLE] =
                     update_item(tables[CACHED_TABLE], me.query_hash, now)]
    /\ procs' = [procs EXCEPT ![p] = [me EXCEPT !.pc = "done", !.ret = me.item]]
    /\ UNCHANGED <<DDB_TABLE, CACHED_TABLE, dynamodb_resource, now, last, prev,
                   pre, ops, otherVars>>

GetRead == \E p \in DOMAIN procs : get_cached_answer_read(p)

GetUpdate == \E p \in DOMAIN procs : get_cached_answer_update(p)

NextHits == GetRead \/ GetUpdate \/ Tick

SpecHits == InitHits /\ [][NextHits]_vars

\* Every call in progress has returned.
AllDone(kinds) ==
    /\ procs # <<>>
    /\ \A p \in DOMAIN procs : procs[p].kind \in kinds /\ procs[p].pc = "done"

\* N get calls on one key have all returned; the key held a record when
\* they started, and the record is unexpired still.
HitKey == procs[1].query_hash
NumCalls == Cardinality(DOMAIN procs)

ConcurrentHitsDone ==
    /\ AllDone({"get"})
    /\ HitKey \in DOMAIN pre
    /\ pre[HitKey].ttl >= now

SameAnswerToAll ==
    \A p \in DOMAIN procs :
        /\ procs[p].ret # None
        /\ procs[p].ret.answer = pre[HitKey].answer

(***************************************************************************)
(* C16.  Concurrent hit tolerance, as claimed: for N >= 1 get calls        *)
(* running concurrently on the same present, unexpired key, with no        *)
(* concurrent put or invalidate, every call returns the same answer, and   *)
(* once all have completed the stored access_count is >= 1 and <= N.       *)
(***************************************************************************)
C16_ConcurrentHitsWithinN ==
    ConcurrentHitsDone =>
        /\ SameAnswerToAll
        /\ HitKey \in DOMAIN Store
        /\ Store[HitKey].access_count >= 1
        /\ Store[HitKey].access_count <= NumCalls

(***************************************************************************)
(* C16 as amended.  Every call returns the same answer, and once all have  *)
(* completed the stored access_count is what it was before the calls plus  *)
(* N: each update is one atomic increment on the item, none is lost.  It   *)
(* is therefore >= 1, and <= N exactly when the record had no hits before. *)
(***************************************************************************)
C16_ConcurrentHitsAllCounted ==
    ConcurrentHitsDone =>
        /\ SameAnswerToAll
        /\ HitKey \in DOMAIN Store
        /\ Store[HitKey].access_count = pre[HitKey].access_count + NumCalls
        /\ Store[HitKey].access_count >= 1
        /\ Store[HitKey].answer = pre[HitKey].answer
        /\ SameExcept(Store, pre, {HitKey})

\* Three calls on a record without hits, the reads all before the updates.
C16_Witness ==
    /\ ConcurrentHitsDone
    /\ NumCalls = MaxGetters
    /\ pre[HitKey].access_count = 0
    /\ \A p \in DOMAIN procs : procs[p].ret = pre[HitKey]
    /\ Store[HitKey].access_count = MaxGetters

(***************************************************************************)
(* SpecSweeps: invalidate_cache (full clear or by pattern) and             *)
(* cleanup_expired_cache called by several callers at once.  Each call is  *)
(* a sequence of backend steps: a scan of one page (lines 191/199 and      *)
(* 222/230-233), then one delete_item with `deleted_count += 1` for each   *)
(* item of the page (lines 193-195, 200-202, 225-227, 234-236), then the   *)
(* next page while the response carried LastEvaluatedKey; the steps of     *)
(* different callers interleave freely.                                    *)
(***************************************************************************)
\* What each concurrent caller runs.
SweepCalls ==
    { [kind |-> "invalidate", pattern |-> NoneStr],
      [kind |-> "invalidate", pattern |-> "alpha"],
      [kind |-> "cleanup",    pattern |-> NoneStr] }

InitSweeps ==
    \E items \in SUBSET EarlierItems, limit \in 1..MaxPage,
       calls \in [1..MaxSweepers -> SweepCalls] :
        /\ TableBefore(items)
        /\ procs = [p \in 1..MaxSweepers |->
                      [kind |-> calls[p].kind, pattern |-> calls[p].pattern,
                       limit |-> limit, pc |-> "start", scan_kwargs |-> <<>>,
                       more |-> FALSE, Items |-> <<>>, i |-> 0,
                       deleted_count |-> 0, ret |-> 0]]

\* table = _table(); the scan arguments are built (cleanup reads the clock
\* here, once); deleted_count = 0.
sweep_start(p) ==
    LET me == procs[p]
        h  == table_handle(TRUE)
        scan_kwargs ==
            IF me.kind = "cleanup"
            THEN [FilterExpression |-> [op |-> "ttl_lt", value |-> now]]
            ELSE IF Truthy(me.pattern)
            THEN [FilterExpression |->
                    [op |-> "hash_or_query_contains", value |-> me.pattern]]
            ELSE <<>>
    IN
    /\ me.kind \in {"invalidate", "cleanup"} /\ me.pc = "start"
    /\ CACHED_TABLE' = h.cached
    /\ dynamodb_resource' = h.resource
    /\ procs' = [procs EXCEPT ![p] =
                    [me EXCEPT !.pc = "scan", !.scan_kwargs = scan_kwargs]]
    /\ UNCHANGED <<tables, DDB_TABLE, now, last, prev, pre, ops, otherVars>>

\* Where a caller goes after the last item of a page: the next page while
\* "LastEvaluatedKey" is in the response, otherwise `return deleted_count`.
AfterPage(me) ==
    IF me.more THEN [me EXCEPT !.pc = "scan"]
    ELSE [me EXCEPT !.pc = "done", !.ret = me.deleted_count]

\* response = table.scan(**scan_kwargs)
sweep_scan(p) ==
    LET me       == procs[p]
        response == scan(tables[CACHED_TABLE], me.scan_kwargs, me.limit)
        more     == "LastEvaluatedKey" \in DOMAIN response
        kwargs   == IF more
                    THEN ("ExclusiveStartKey" :> response.LastEvaluatedKey)
                            @@ me.scan_kwargs
                    ELSE me.scan_kwargs
        got      == [me EXCEPT !.Items = response.Items, !.i = 1,
                               !.more = more, !.scan_kwargs = kwargs]
    IN
    /\ me.kind \in {"invalidate", "cleanup"} /\ me.pc = "scan"
    /\ procs' = [procs EXCEPT ![p] =
                    IF response.Items # <<>>
                    THEN [got EXCEPT !.pc = "delete"]
                    ELSE AfterPage(got)]
    /\ UNCHANGED <<tables, DDB_TABLE, CACHED_TABLE, dynamodb_resource, now,
                   last, prev, pre, ops, otherVars>>

\* table.delete_item(Key={"query_hash": item["query_hash"]}); deleted_count += 1
sweep_delete(p) ==
    LET me      == procs[p]
        item    == me.Items[me.i]
        counted == [me EXCEPT !.deleted_count = me.deleted_count + 1,
                              !.i = me.i + 1]
    IN
    /\ me.kind \in {"invalidate", "cleanup"} /\ me.pc = "delete"
    /\ tables' = [tables EXCEPT ![CACHED_TABLE] =
                     delete_item(tables[CACHED_TABLE], item.query_hash)]
    /\ procs' = [procs EXCEPT ![p] =
                    IF me.i < Len(me.Items) THEN counted ELSE AfterPage(counted)]
    /\ UNCHANGED <<DDB_TABLE, CACHED_TABLE, dynamodb_resource, now, last, prev,
                   pre, ops, otherVars>>

SweepStart == \E p \in DOMAIN procs : sweep_start(p)

SweepScan == \E p \in DOMAIN procs : sweep_scan(p)

SweepDelete == \E p \in DOMAIN procs : sweep_delete(p)

NextSweeps == SweepStart \/ SweepScan \/ SweepDelete \/ Tick

SpecSweeps == InitSweeps /\ [][NextSweeps]_vars

(***************************************************************************)
(* C17.  No double counting under concurrency: when invalidate scans, or   *)
(* an invalidate and a cleanup_expired sweep, run concurrently over the    *)
(* same records, a record deleted by one is not also counted by the other: *)
(* the counts returned add up to the number of records removed from the    *)
(* store.                                                                  *)
(***************************************************************************)
C17_NoDoubleCounting ==
    AllDone({"invalidate", "cleanup"}) =>
        sum([p \in 1..NumCalls |-> procs[p].ret])
            = Cardinality(DOMAIN pre \ DOMAIN Store)

(***************************************************************************)
(* C18.  When a scan or a delete fails partway through cleanup_expired,    *)
(* after k records have been deleted, the sweep aborts without raising and *)
(* returns k, the count accumulated so far.                                *)
(***************************************************************************)
C18_AbortedSweepReturnsCountSoFar ==
    (last.op = "cleanup" /\ last.fault = "scan_or_delete") =>
        /\ ~last.raised
        /\ last.ret = Cardinality(DOMAIN pre \ DOMAIN Store)

(***************************************************************************)
(* SpecFingerprint: create_query_hash applied to one query after another,  *)
(* at any time.  The inputs differ in case, in leading and trailing        *)
(* whitespace (spaces, tabs, newlines) and in inner whitespace, and        *)
(* include the empty and the all-whitespace strings.                       *)
(***************************************************************************)
HashInputs ==
    {"alpha beta", "Alpha Beta", " alpha beta ", "\talpha beta\n", "ALPHA BETA",
     "alpha  beta", "alphabeta", "gamma alpha", "delta", " Delta ", "a", "A ",
     "", "  ", "\t"}

InitFingerprint ==
    /\ TableBefore({})
    /\ procs = <<>>

create_query_hash_call(user_query) ==
    /\ ops < MaxOps
    /\ ops' = ops + 1
    /\ prev' = last
    /\ last' = [op |-> "create_query_hash", user_query |-> user_query,
                at |-> now, ret |-> create_query_hash(user_query),
                fault |-> "none", raised |-> FALSE]
    /\ UNCHANGED <<tables, DDB_TABLE, CACHED_TABLE, dynamodb_resource, now, pre,
                   procs, otherVars>>

Fingerprint == \E q \in HashInputs : create_query_hash_call(q)

NextFingerprint == Fingerprint \/ Tick

SpecFingerprint == InitFingerprint /\ [][NextFingerprint]_vars

\* The query without its leading and trailing whitespace, and equality of
\* two texts up to the case of their letters.
CharAt(s, i) == SubSeq(s, i, i)

Trimmed(q) ==
    LET lead  == Cardinality({i \in 1..Len(q) :
                     \A x \in 1..i : IsSpace(CharAt(q, x))})
        trail == Cardinality({i \in 1..Len(q) :
                     \A x \in (Len(q) - i + 1)..Len(q) : IsSpace(CharAt(q, x))})
    IN  IF lead = Len(q) THEN "" ELSE SubSeq(q, lead + 1, Len(q) - trail)

SameIgnoringCase(s1, s2) ==
    /\ Len(s1) = Len(s2)
    /\ \A i \in 1..Len(s1) : LowerChar(CharAt(s1, i)) = LowerChar(CharAt(s2, i))

SameNormalized(q1, q2) == SameIgnoringCase(Trimmed(q1), Trimmed(q2))

AllWhitespace(q) == \A i \in 1..Len(q) : IsSpace(CharAt(q, i))

TwoFingerprints ==
    /\ last.op = "create_query_hash" /\ prev.op = "create_query_hash"
    /\ last.user_query # "" /\ prev.user_query # ""

(***************************************************************************)
(* C19.  Fingerprint determinism: for all non-empty queries q1, q2,        *)
(* fingerprint(q1) = fingerprint(q2) if and only if q1 and q2 are equal    *)
(* after trimming leading and trailing whitespace and lowercasing (the     *)
(* digest being injective on normalized text); the result depends on       *)
(* nothing but the input, whenever it is computed.                         *)
(***************************************************************************)
C19_FingerprintDeterminism ==
    TwoFingerprints =>
        (last.ret = prev.ret) <=> SameNormalized(last.user_query, prev.user_query)

\* Two spellings of one query computed at different times, and before them
\* the pair of a query and the same words with other inner whitespace.
C19_Witness ==
    /\ TwoFingerprints
    /\ prev.user_query = "\talpha beta\n" /\ last.user_query = "Alpha Beta"
    /\ last.at > prev.at
    /\ last.ret = prev.ret
    /\ last.ret # create_query_hash("alpha  beta")

(***************************************************************************)
(* C20.  Empty sentinel: fingerprint("") and the fingerprint of any        *)
(* all-whitespace string both return the distinguished empty-string        *)
(* sentinel, which differs from every real hash output, the hash of the    *)
(* empty string included.                                                  *)
(***************************************************************************)
C20_EmptySentinel ==
    last.op = "create_query_hash" =>
        /\ AllWhitespace(last.user_query) => last.ret = ""
        /\ ~AllWhitespace(last.user_query) => last.ret # ""
        /\ sha256_hexdigest("") # ""

(***************************************************************************)
(* C21.  In every reachable store state every stored record has            *)
(* expires_at strictly greater than created_at, for every ttl a caller may *)
(* pass to put, ttl = 0 included.  Stated of the record each put stores.   *)
(***************************************************************************)
C21_ExpiresAfterCreation ==
    LastOk("put") =>
        LET k == create_query_hash(last.user_query) IN
        /\ k \in DOMAIN Store
        /\ Store[k].ttl > Store[k].created_at

(***************************************************************************)
(* C22.  Access counting.  A record's access_count is 0 right after put;   *)
(* each successful hit adds exactly one to it and sets last_accessed to    *)
(* the time of the hit, touching nothing else, so that after k sequential  *)
(* hits with no put or invalidate in between it is exactly k; access_count *)
(* never decreases, and last_accessed >= created_at while the record       *)
(* lives.                                                                  *)
(***************************************************************************)
Hit == LastOk("get") /\ last.ret # None

C22_AccessCounting ==
    /\ LastOk("put") =>
          Store[create_query_hash(last.user_query)].access_count = 0
    /\ (Hit /\ "access_count" \in DOMAIN pre[last.query_hash]) =>
          LET k == last.query_hash IN
          /\ k \in DOMAIN Store
          /\ Store[k].access_count = pre[k].access_count + 1
          /\ Store[k].last_accessed = last.at
          /\ DOMAIN Store[k] = DOMAIN pre[k] \cup {"last_accessed"}
          /\ \A f \in DOMAIN pre[k] \ {"access_count", "last_accessed"} :
                Store[k][f] = pre[k][f]
          /\ SameExcept(Store, pre, {k})
    /\ (Hit /\ PrevOk("put")
          /\ last.query_hash = create_query_hash(prev.user_query)) =>
          Store[last.query_hash].access_count = 1
    /\ (Hit /\ PrevOk("get") /\ prev.ret # None
          /\ last.query_hash = prev.query_hash
          /\ "access_count" \in DOMAIN prev.ret) =>
          Store[last.query_hash].access_count = prev.ret.access_count + 2
    /\ last.op \notin {"init", "put"} =>
          \A k \in DOMAIN pre \cap DOMAIN Store :
              ("access_count" \in DOMAIN pre[k]) =>
                  /\ "access_count" \in DOMAIN Store[k]
                  /\ Store[k].access_count >= pre[k].access_count
    /\ \A k \in DOMAIN Store :
          {"created_at", "last_accessed"} \subseteq DOMAIN Store[k] =>
              Store[k].last_accessed >= Store[k].created_at

\* Two hits in a row, at different times, on an unexpired record hit once
\* before.
C22_Witness ==
    /\ Hit /\ PrevOk("get") /\ prev.ret # None
    /\ last.query_hash = prev.query_hash
    /\ last.at > prev.at
    /\ "ttl" \in DOMAIN last.ret /\ last.ret.ttl >= last.at
    /\ prev.ret.access_count = 1
    /\ Store[last.query_hash].access_count = 3
    /\ Store[last.query_hash].last_accessed = last.at

(***************************************************************************)
(* SpecFlow: the query flow of the two front ends, one search after        *)
(* another in one session.                                                 *)
(*   - src/rag_project/main.py, lines 392-418: the flow over the session   *)
(*     cache st.session_state.query_cache, keyed by the normalized query   *)
(*     and top_k.                                                          *)
(*   - src/main.py, lines 442-454: the Search handler, which calls         *)
(*     query_rag_with_metadata(query, top_k).  That function is imported   *)
(*     from query.py, which does not define it; it is modelled from        *)
(*     section 2 of the specification (fingerprint, lookup, on a hit       *)
(*     return the cached answer, on a miss generate and write back with a  *)
(*     fresh TTL) over the cache module's own operations.                  *)
(* The answer generator is external: it returns an answer or raises.       *)
(***************************************************************************)
SearchQueries == {"alpha beta", "Alpha Beta", " Delta ", "", "  "}
TopKs == {3, 5}
GeneratorOutcomes ==
    {[ok |-> TRUE, answer |-> "a1"], [ok |-> TRUE, answer |-> "a2"], [ok |-> FALSE]}

\* cache_key = query.lower().strip() + "_" + str(top_k)
cache_key(query, top_k) == strip(lower(query)) \o "_" \o ToString(top_k)

\* st.session_state.query_cache.get(cache_key)
query_cache_get(key) == IF key \in DOMAIN query_cache THEN query_cache[key] ELSE None

\* What a search leaves in `last`: what it was asked, what the session
\* cache held before, how many lookups and generator calls it made, and the
\* answer it displayed (None when it displayed an error or nothing).
SearchRecord(op, query, top_k, gen) ==
    [op |-> op, query |-> query, top_k |-> top_k, gen |-> gen, at |-> now,
     before |-> query_cache, fault |-> "none", raised |-> FALSE]

\* Mutant of rag_search: a failed generation is cached as an answer.
rag_search_caches_failure(query, top_k, gen) ==
    LET key         == cache_key(query, top_k)
        cache_entry == query_cache_get(key)
        args        == SearchRecord("rag_search", query, top_k, gen)
    IN
    /\ ops < MaxOps
    /\ ops' = ops + 1
    /\ prev' = last
    /\ IF strip(query) = ""
       THEN /\ query_cache' = query_cache
            /\ last' = [lookups |-> 0, generator_calls |-> 0, cached |-> FALSE,
                        shown |-> NoneStr] @@ args
       ELSE IF cache_entry # None
       THEN /\ query_cache' = [query_cache EXCEPT ![key].access_count = @ + 1]
            /\ last' = [lookups |-> 1, generator_calls |-> 0, cached |-> TRUE,
                        shown |-> cache_entry.answer] @@ args
       ELSE /\ query_cache' =
                   (key :> [answer |-> IF gen.ok THEN gen.answer ELSE "Error",
                            access_count |-> 1, timestamp |-> now])
                       @@ query_cache
            /\ last' = [lookups |-> 1, generator_calls |-> 1, cached |-> FALSE,
                        shown |-> IF gen.ok THEN gen.answer ELSE NoneStr] @@ args
    /\ UNCHANGED <<tables, DDB_TABLE, CACHED_TABLE, dynamodb_resource, now, pre,
                   procs, s3, index, watcher>>

\* src/rag_project/main.py, lines 392-418.
rag_search(query, top_k, gen) ==
    LET key         == cache_key(query, top_k)
        cache_entry == query_cache_get(key)
        args        == SearchRecord("rag_search", query, top_k, gen)
    IN
    /\ ops < MaxOps
    /\ ops' = ops + 1
    /\ prev' = last
    /\ IF strip(query) = ""
       THEN /\ query_cache' = query_cache
            /\ last' = [lookups |-> 0, generator_calls |-> 0, cached |-> FALSE,
                        shown |-> NoneStr] @@ args
       ELSE IF cache_entry # None
       THEN /\ query_cache' = [query_cache EXCEPT ![key].access_count = @ + 1]
            /\ last' = [lookups |-> 1, generator_calls |-> 0, cached |-> TRUE,
                        shown |-> cache_entry.answer] @@ args
       ELSE IF gen.ok
       THEN /\ query_cache' =
                   (key :> [answer |-> gen.answer, access_count |-> 1,
                            timestamp |-> now]) @@ query_cache
            /\ last' = [lookups |-> 1, generator_calls |-> 1, cached |-> FALSE,
                        shown |-> gen.answer] @@ args
       ELSE /\ query_cache' = query_cache
            /\ last' = [lookups |-> 1, generator_calls |-> 1, cached |-> FALSE,
                        shown |-> NoneStr] @@ args
    /\ UNCHANGED <<tables, DDB_TABLE, CACHED_TABLE, dynamodb_resource, now, pre,
                   procs, s3, index, watcher>>

\* query_rag_with_metadata(query, top_k), after section 2 of the
\* specification: fingerprint, lookup (get_cached_answer: the read and the
\* access update), on a miss the generator and then put_cached_answer with
\* the default TTL.
query_rag_with_metadata(query, top_k, gen) ==
    LET h          == table_handle(TRUE)
        t          == tables[h.table]
        query_hash == create_query_hash(query)
        item       == IF query_hash = "" THEN None
                      ELSE resp_get_Item(get_item(t, query_hash))
        args       == [query_hash |-> query_hash]
                          @@ SearchRecord("search", query, top_k, gen)
    IN
    /\ CACHED_TABLE' = h.cached
    /\ dynamodb_resource' = h.resource
    /\ pre' = t
    /\ IF item # None
       THEN /\ tables' = [tables EXCEPT ![h.table] = update_item(t, query_hash, now)]
            /\ last' = [lookups |-> 1, generator_calls |-> 0, cached |-> TRUE,
                        shown |-> item.answer] @@ args
       ELSE IF gen.ok
       THEN /\ tables' = [tables EXCEPT ![h.table] =
                             put_item(t, NewItem(query, gen.answer, NoneStr,
                                                 DEFAULT_TTL_SECONDS, now))]
            /\ last' = [lookups |-> 1, generator_calls |-> 1, cached |-> FALSE,
                        shown |-> gen.answer] @@ args
       ELSE /\ tables' = tables
            /\ last' = [lookups |-> 1, generator_calls |-> 1, cached |-> FALSE,
                        shown |-> NoneStr] @@ args

\* src/main.py, lines 442-454: `if st.button(...) and query.strip():` then
\* query_rag_with_metadata inside try/except.
search_handler(query, top_k, gen) ==
    /\ ops < MaxOps
    /\ ops' = ops + 1
    /\ prev' = last
    /\ IF strip(query) = ""
       THEN /\ last' = [lookups |-> 0, generator_calls |-> 0, cached |-> FALSE,
                        shown |-> NoneStr, query_hash |-> NoneStr]
                           @@ SearchRecord("search", query, top_k, gen)
            /\ pre' = Store
            /\ UNCHANGED <<tables, CACHED_TABLE, dynamodb_resource>>
       ELSE query_rag_with_metadata(query, top_k, gen)
    /\ UNCHANGED <<DDB_TABLE, now, procs, otherVars>>

InitFlow ==
    \E items \in SUBSET EarlierItems :
        /\ TableBefore(items)
        /\ procs = <<>>

RagSearch == \E q \in SearchQueries, top_k \in TopKs, gen \in GeneratorOutcomes :
                rag_search(q, top_k, gen)

Search == \E q \in SearchQueries, top_k \in TopKs, gen \in GeneratorOutcomes :
             search_handler(q, top_k, gen)

NextFlow == RagSearch \/ Search \/ Tick

SpecFlow == InitFlow /\ [][NextFlow]_vars

(***************************************************************************)
(* C23.  Read-through: in the query flow the answer generator is invoked   *)
(* exactly once for each cache miss and not at all on a hit; on a hit the  *)
(* cached answer is returned and the entry's access count is bumped; on a  *)
(* miss the generated answer is written back only after the generation     *)
(* succeeded, a generation that raises leaves the cache unchanged.         *)
(***************************************************************************)
\* The cache of the flow that ran last, before and after it, and the key it
\* looked up.
FlowBefore == IF last.op = "rag_search" THEN last.before ELSE pre
FlowAfter  == IF last.op = "rag_search" THEN query_cache ELSE Store
FlowKey    == IF last.op = "rag_search"
              THEN cache_key(last.query, last.top_k) ELSE last.query_hash

LookedUp == last.op \in {"rag_search", "search"} /\ last.lookups = 1

C23_ReadThrough ==
    LookedUp =>
        LET k == FlowKey IN
        IF k \in DOMAIN FlowBefore
        THEN /\ last.generator_calls = 0
             /\ last.cached
             /\ last.shown = FlowBefore[k].answer
             /\ k \in DOMAIN FlowAfter
             /\ FlowAfter[k].answer = FlowBefore[k].answer
             /\ FlowAfter[k].access_count = FlowBefore[k].access_count + 1
             /\ SameExcept(FlowAfter, FlowBefore, {k})
        ELSE /\ last.generator_calls = 1
             /\ ~last.cached
             /\ IF last.gen.ok
                THEN /\ last.shown = last.gen.answer
                     /\ k \in DOMAIN FlowAfter
                     /\ FlowAfter[k].answer = last.gen.answer
                     /\ SameExcept(FlowAfter, FlowBefore, {k})
                ELSE /\ last.shown = NoneStr
                     /\ FlowAfter = FlowBefore

\* A miss that generated and stored, then a hit on another spelling of the
\* same query: nothing generated, the stored answer shown, two accesses.
C23_Witness ==
    /\ LookedUp /\ last.op = "rag_search"
    /\ prev.op = "rag_search" /\ prev.lookups = 1
    /\ prev.generator_calls = 1 /\ prev.gen.ok
    /\ prev.query = "alpha beta" /\ last.query = "Alpha Beta"
    /\ prev.top_k = last.top_k
    /\ last.generator_calls = 0
    /\ last.shown = prev.gen.answer
    /\ query_cache[FlowKey].access_count = 2

(***************************************************************************)
(* C24.  Empty or all-whitespace queries are uncacheable: no sequence of   *)
(* operations, put called directly with "" or with an all-whitespace query *)
(* included, results in a record stored for such a query.                  *)
(***************************************************************************)
C24_BlankUncacheable ==
    \A k \in DOMAIN Store :
        "user_query" \in DOMAIN Store[k] => ~AllWhitespace(Store[k].user_query)

(***************************************************************************)
(* SpecRace: one get_cached_answer(k) running at the same time as one      *)
(* deleting call: invalidate_cache(query_hash=k), a full or pattern        *)
(* invalidation, or cleanup_expired_cache.  The get is its two backend     *)
(* steps (get_item, line 99; update_item under `if item:`, lines 107-111), *)
(* the deleting call its scan and delete steps; no put runs.               *)
(***************************************************************************)
\* invalidate_cache(query_hash=k): table.delete_item(...); return 1
\* (lines 177-180).
invalidate_key(p) ==
    LET me == procs[p]
        h  == table_handle(TRUE)
    IN
    /\ me.kind = "invalidate_key" /\ me.pc = "start"
    /\ CACHED_TABLE' = h.cached
    /\ dynamodb_resource' = h.resource
    /\ tables' = [tables EXCEPT ![h.table] =
                     delete_item(tables[h.table], me.query_hash)]
    /\ procs' = [procs EXCEPT ![p] = [me EXCEPT !.pc = "done", !.ret = 1]]
    /\ UNCHANGED <<DDB_TABLE, now, last, prev, pre, ops, otherVars>>

InitRace ==
    \E items \in SUBSET EarlierItems, k \in Keys, limit \in 1..MaxPage,
       call \in SweepCalls \cup {[kind |-> "invalidate_key"]} :
        /\ TableBefore(items)
        /\ procs =
             << [kind |-> "get", pc |-> "get_item", query_hash |-> k,
                 item |-> None, ret |-> None],
                IF call.kind = "invalidate_key"
                THEN [kind |-> "invalidate_key", pc |-> "start",
                      query_hash |-> k, ret |-> 0]
                ELSE [kind |-> call.kind, pattern |-> call.pattern,
                      limit |-> limit, pc |-> "start", scan_kwargs |-> <<>>,
                      more |-> FALSE, Items |-> <<>>, i |-> 0,
                      deleted_count |-> 0, ret |-> 0] >>

InvalidateKey == \E p \in DOMAIN procs : invalidate_key(p)

NextRace == GetRead \/ GetUpdate \/ InvalidateKey
               \/ SweepStart \/ SweepScan \/ SweepDelete \/ Tick

SpecRace == InitRace /\ [][NextRace]_vars

\* The deleting call removes the record of the key the get is reading,
\* whatever the record holds: invalidate(k) or a full clear.
DeletesHitKey ==
    \/ procs[2].kind = "invalidate_key"
    \/ procs[2].kind = "invalidate" /\ procs[2].pattern = NoneStr

(***************************************************************************)
(* C25.  Records are created only by put: under every interleaving of      *)
(* get(k) (its read step, then its access-count update step) with          *)
(* invalidate(k), a full or pattern invalidation or cleanup_expired, and    *)
(* with no concurrent put, once all calls have completed the store holds   *)
(* no record for k where the deleting call covers k; and the store never   *)
(* contains a partial record, one that lacks answer, created_at or ttl.     *)
(***************************************************************************)
C25_OnlyPutCreates ==
    /\ \A k \in DOMAIN Store :
          {"answer", "created_at", "ttl"} \subseteq DOMAIN Store[k]
    /\ (AllDone({"get", "invalidate", "invalidate_key", "cleanup"})
           /\ DeletesHitKey)
         => HitKey \notin DOMAIN Store

(***************************************************************************)
(* C26.  invalidate called with a fingerprint argument deletes at most one *)
(* record, for every fingerprint value, the empty-string sentinel that     *)
(* fingerprint("") returns included: records stored under other keys stay. *)
(***************************************************************************)
C26_ByKeyTouchesOneKey ==
    (ByKey /\ last.fault = "none") =>
        SameExcept(Store, pre, {last.query_hash})

(***************************************************************************)
(* C27.  update_access_stats(k) only modifies an existing record: called   *)
(* for a key that has no record it leaves the store unchanged; called for  *)
(* an existing record it changes only access_count (+1) and last_accessed, *)
(* leaving every other attribute and every other record untouched.         *)
(***************************************************************************)
C27_UpdateOnlyExisting ==
    LastOk("update_access_stats") =>
        LET k == last.query_hash IN
        IF k \in DOMAIN pre
        THEN /\ SameExcept(Store, pre, {k})
             /\ k \in DOMAIN Store
             /\ \A a \in DOMAIN pre[k] \ {"access_count", "last_accessed"} :
                   a \in DOMAIN Store[k] /\ Store[k][a] = pre[k][a]
             /\ Store[k].last_accessed = last.at
             /\ "access_count" \in DOMAIN pre[k]
                   => Store[k].access_count = pre[k].access_count + 1
        ELSE Store = pre

(***************************************************************************)
(* C28.  The sweep and the read path agree on the expiry boundary:         *)
(* cleanup_expired never deletes a record that is a hit for the read path  *)
(* at the time of the sweep (now <= expires_at); a record with             *)
(* expires_at == now survives the sweep, unchanged, and so does the record *)
(* a get has just returned while now <= expires_at.                        *)
(***************************************************************************)
C28_SweepKeepsHits ==
    LastOk("cleanup") =>
        /\ \A k \in DOMAIN pre :
              ("ttl" \in DOMAIN pre[k] /\ last.at <= pre[k].ttl)
                 => k \in DOMAIN Store /\ Store[k] = pre[k]
        /\ (PrevOk("get") /\ prev.ret # None /\ prev.at = last.at
               /\ "ttl" \in DOMAIN prev.ret /\ prev.at <= prev.ret.ttl)
              => /\ prev.query_hash \in DOMAIN Store
                 /\ Store[prev.query_hash].ttl = prev.ret.ttl
                 /\ Store[prev.query_hash].answer = prev.ret.answer

\* A get hits a record exactly at its expiry; the sweep that follows at the
\* same time removes another record and keeps this one.
C28_Witness ==
    /\ LastOk("cleanup") /\ PrevOk("get")
    /\ prev.ret # None /\ prev.at = last.at
    /\ "ttl" \in DOMAIN prev.ret /\ prev.ret.ttl = last.at
    /\ last.ret >= 1
    /\ prev.query_hash \in DOMAIN Store

(***************************************************************************)
(* SpecConfig: the handlers of Spec, and the sidebar of the UI, which on   *)
(* every run writes the table name typed into "DynamoDB Table Name" to the *)
(* environment variable DDB_TABLE (src/main.py, lines 101-102).  The clock *)
(* stands still: which table a call uses does not depend on the time.      *)
(***************************************************************************)
\* os.environ["DDB_TABLE"] = ddb_table
sidebar_configuration(ddb_table) ==
    /\ ddb_table # DDB_TABLE
    /\ DDB_TABLE' = ddb_table
    /\ prev' = last
    /\ last' = [op |-> "sidebar", ddb_table |-> ddb_table, at |-> now,
                fault |-> "none", raised |-> FALSE]
    /\ UNCHANGED <<tables, CACHED_TABLE, dynamodb_resource, now, pre, ops,
                   procs, otherVars>>

Sidebar == \E ddb_table \in TableNames : sidebar_configuration(ddb_table)

NextConfig == Get \/ Put \/ Invalidate \/ Cleanup \/ Stats \/ UpdateAccess
                 \/ Sidebar

SpecConfig == Init /\ [][NextConfig]_vars

(***************************************************************************)
(* C29.  Cache operations always target the currently configured backend   *)
(* table: after the configured table name (DDB_TABLE) changes between two  *)
(* operations, the later operation reads and writes the newly configured   *)
(* table, not the one resolved at first use.  Stated of every cache        *)
(* operation that has just run: the table it used is the one DDB_TABLE     *)
(* names.                                                                  *)
(***************************************************************************)
C29_TargetsConfiguredTable ==
    (last.op \notin {"init", "sidebar"} /\ last.fault = "none")
        => CACHED_TABLE = DDB_TABLE

(***************************************************************************)
(* SpecWatcher: continuous_sync (src/watcher.py) running against the       *)
(* bucket while PDFs are uploaded under raw/ (src/upload.py).  Each        *)
(* iteration: process_new_pdfs (src/extract_text.py), get_new_pdfs_from_s3,*)
(* build_or_update_index when the list is not empty, time.sleep.  Every S3 *)
(* call and every text extraction succeeds.  `index` holds the names of    *)
(* the files that were passed to build_or_update_index.                    *)
(***************************************************************************)
\* The files that get uploaded, by name.
RawNames == {"a.pdf", "b.PDF", "c.txt.pdf"}

\* list_objects_v2 returns keys in the byte order of their names.
S3KeyOrder == <<"processed/a.txt", "processed/b.PDF", "processed/c.txt.txt",
                "raw/a.pdf", "raw/b.PDF", "raw/c.txt.pdf">>

startswith(s, prefix) ==
    Len(s) >= Len(prefix) /\ SubSeq(s, 1, Len(prefix)) = prefix

endswith(s, suffix) ==
    Len(s) >= Len(suffix) /\ SubSeq(s, Len(s) - Len(suffix) + 1, Len(s)) = suffix

\* str.replace(old, new): every occurrence, left to right, case for case.
RECURSIVE replace(_, _, _)
replace(s, old, new) ==
    IF Len(s) < Len(old) THEN s
    ELSE IF SubSeq(s, 1, Len(old)) = old
    THEN new \o replace(SubSeq(s, Len(old) + 1, Len(s)), old, new)
    ELSE SubSeq(s, 1, 1) \o replace(SubSeq(s, 2, Len(s)), old, new)

\* os.path.basename
RECURSIVE basename(_)
basename(p) ==
    IF \E i \in 1..Len(p) : CharAt(p, i) = "/"
    THEN LET i == CHOOSE j \in 1..Len(p) : CharAt(p, j) = "/"
         IN  basename(SubSeq(p, i + 1, Len(p)))
    ELSE p

list_files_in_s3(prefix) ==
    SelectSeq(S3KeyOrder, LAMBDA key : key \in s3 /\ startswith(key, prefix))

Range(seq) == {seq[i] : i \in DOMAIN seq}

\* upload_single: s3_key = f"raw/{filename}"; upload_file_to_s3(...)
upload_single(filename) ==
    /\ ("raw/" \o filename) \notin s3
    /\ s3' = s3 \cup {"raw/" \o filename}
    /\ UNCHANGED <<tables, DDB_TABLE, CACHED_TABLE, dynamodb_resource, now,
                   last, prev, pre, ops, procs, query_cache, index, watcher>>

\* process_new_pdfs, lines 11-14: the two listings.
process_new_pdfs_list ==
    LET raw_files       == list_files_in_s3("raw/")
        processed_files == list_files_in_s3("processed/")
        processed_names == {basename(f) : f \in Range(processed_files)}
    IN
    /\ watcher.pc = "process_new_pdfs"
    /\ watcher' = IF raw_files = <<>>
                  THEN [pc |-> "get_new_pdfs_from_s3"]
                  ELSE [pc |-> "process_loop", raw_files |-> raw_files,
                        processed_names |-> processed_names, i |-> 1]
    /\ UNCHANGED <<tables, DDB_TABLE, CACHED_TABLE, dynamodb_resource, now,
                   last, prev, pre, ops, procs, query_cache, s3, index>>

\* process_new_pdfs, lines 16-40: one pass of the loop body.
process_new_pdfs_file ==
    LET s3_key       == watcher.raw_files[watcher.i]
        filename     == basename(s3_key)
        txt_filename == replace(filename, ".pdf", ".txt")
        last_one     == watcher.i = Len(watcher.raw_files)
    IN
    /\ watcher.pc = "process_loop"
    /\ s3' = IF txt_filename \in watcher.processed_names
             THEN s3
             ELSE s3 \cup {"processed/" \o txt_filename}
    /\ watcher' = IF last_one
                  THEN [pc |-> "get_new_pdfs_from_s3"]
                  ELSE [watcher EXCEPT !.i = @ + 1]
    /\ UNCHANGED <<tables, DDB_TABLE, CACHED_TABLE, dynamodb_resource, now,
                   last, prev, pre, ops, procs, query_cache, index>>

\* get_new_pdfs_from_s3 (lines 14-32) and `if new_pdfs:` (line 49).
get_new_pdfs_from_s3 ==
    LET raw_files       == list_files_in_s3("raw/")
        processed_files == list_files_in_s3("processed/")
        processed_names == {replace(basename(f), ".txt", ".pdf") :
                               f \in Range(processed_files)}
        new_pdfs == SelectSeq(raw_files,
                       LAMBDA s3_key :
                           /\ basename(s3_key) \notin processed_names
                           /\ endswith(lower(basename(s3_key)), ".pdf"))
    IN
    /\ watcher.pc = "get_new_pdfs_from_s3"
    /\ watcher' = IF new_pdfs # <<>>
                  THEN [pc |-> "build_or_update_index", new_pdfs |-> new_pdfs]
                  ELSE [pc |-> "sleep"]
    /\ UNCHANGED <<tables, DDB_TABLE, CACHED_TABLE, dynamodb_resource, now,
                   last, prev, pre, ops, procs, query_cache, s3, index>>

\* build_or_update_index(new_pdfs): every file of the list is embedded.
build_or_update_index ==
    /\ watcher.pc = "build_or_update_index"
    /\ index' = index \cup {basename(f) : f \in Range(watcher.new_pdfs)}
    /\ watcher' = [pc |-> "sleep"]
    /\ UNCHANGED <<tables, DDB_TABLE, CACHED_TABLE, dynamodb_resource, now,
                   last, prev, pre, ops, procs, query_cache, s3>>

\* time.sleep(CHECK_INTERVAL) returns and the loop starts over.
sleep ==
    /\ watcher.pc = "sleep"
    /\ watcher' = [pc |-> "process_new_pdfs"]
    /\ UNCHANGED <<tables, DDB_TABLE, CACHED_TABLE, dynamodb_resource, now,
                   last, prev, pre, ops, procs, query_cache, s3, index>>

InitWatcher ==
    /\ tables = [n \in TableNames |-> EmptyTable]
    /\ pre = EmptyTable
    /\ DDB_TABLE = "agentic_qa_cache"
    /\ CACHED_TABLE = NoTable
    /\ dynamodb_resource = FALSE
    /\ now = 2
    /\ last = [op |-> "init"]
    /\ prev = [op |-> "init"]
    /\ ops = 0
    /\ procs = <<>>
    /\ query_cache = <<>>
    /\ s3 = {}
    /\ index = {}
    /\ watcher = [pc |-> "process_new_pdfs"]

Upload == \E filename \in RawNames : upload_single(filename)

continuous_sync ==
    \/ process_new_pdfs_list
    \/ process_new_pdfs_file
    \/ get_new_pdfs_from_s3
    \/ build_or_update_index
    \/ sleep

NextWatcher == Upload \/ continuous_sync

\* The watcher process keeps running: whichever step it is at is taken.
SpecWatcher == InitWatcher /\ [][NextWatcher]_vars /\ WF_vars(continuous_sync)

(***************************************************************************)
(* C30.  Watcher liveness: in continuous_sync, every PDF placed under raw/ *)
(* is eventually passed to build_or_update_index in some iteration, the S3 *)
(* list, download and upload calls succeeding.                             *)
(***************************************************************************)
C30_EveryPdfIndexed ==
    \A filename \in RawNames :
        (("raw/" \o filename) \in s3) ~> (filename \in index)

====
